---------------------------- MODULE Spec2Model ----------------------------
(***************************************************************************)
(* A model of the deepfake detection core: the DetectionResult container   *)
(* and its consensus, the ModelRegistry and its checkpoint loading, and    *)
(* the DetectionEngine's detect / batch_detect dispatch.                   *)
(*                                                                         *)
(* Python dicts are modelled as sequences of <<key, value>> pairs, which   *)
(* keeps their insertion order.  Floats are exact rationals [num, den];     *)
(* the rounding of IEEE arithmetic is not modelled.                        *)
(***************************************************************************)
EXTENDS Integers, Sequences, FiniteSets, TLC

\* ------------------------------------------------------------------ bounds

\* add_prediction calls made on one DetectionResult in the container runs.
MaxAdds == 4

\* Paths handed to one batch_detect call.
MaxBatch == 2

\* Depth of nested detect() frames at which the interpreter raises
\* RecursionError (sys.getrecursionlimit(), 1000 by default).
RecursionLimit == 3

\* ------------------------------------------------------- dicts and numbers

NoValue == "None"

RECURSIVE DictIndex(_, _)
\* Position of key k in dict d, 0 when absent.
DictIndex(d, k) ==
    IF d = <<>> THEN 0
    ELSE IF d[Len(d)][1] = k THEN Len(d)
    ELSE DictIndex(SubSeq(d, 1, Len(d) - 1), k)

DictHas(d, k) == DictIndex(d, k) # 0

\* d.get(k): the value, or None.
DictGet(d, k) == IF DictHas(d, k) THEN d[DictIndex(d, k)][2] ELSE NoValue

\* list(d.keys()) and list(d.values()), in insertion order.
DictKeys(d) == [i \in 1..Len(d) |-> d[i][1]]
DictValues(d) == [i \in 1..Len(d) |-> d[i][2]]

KeySet(d) == {d[i][1] : i \in 1..Len(d)}

\* A mutation of DictSet: a re-assigned key moves to the end.
DictSetMoveToEnd(d, k, v) ==
    LET kept == SelectSeq(d, LAMBDA e : e[1] # k)
    IN  Append(kept, <<k, v>>)

\* d[k] = v: an existing key keeps its position, a new key goes last.
DictSet(d, k, v) ==
    IF DictHas(d, k)
    THEN [d EXCEPT ![DictIndex(d, k)] = <<k, v>>]
    ELSE Append(d, <<k, v>>)

RECURSIVE Sum(_)
Sum(s) == IF s = <<>> THEN 0 ELSE s[1] + Sum(Tail(s))

RECURSIVE GCD(_, _)
GCD(a, b) == IF b = 0 THEN a ELSE GCD(b, a % b)

\* A float is modelled as an exact non-negative rational in lowest terms;
\* den = 0 is NaN (numpy's mean of an empty list).
NaN == [num |-> 0, den |-> 0]

Rat(n, d) ==
    IF d = 0 THEN NaN
    ELSE LET g == GCD(n, d) IN [num |-> n \div g, den |-> d \div g]

\* The float of an integer.
Num(n) == Rat(n, 1)

IsNaN(a) == a.den = 0

\* a > b; any comparison with NaN is false.
RatGT(a, b) ==
    /\ ~IsNaN(a)
    /\ ~IsNaN(b)
    /\ a.num * b.den > b.num * a.den

RatAdd(a, b) ==
    IF IsNaN(a) \/ IsNaN(b) THEN NaN
    ELSE Rat(a.num * b.den + b.num * a.den, a.den * b.den)

RECURSIVE RatSum(_)
RatSum(xs) == IF xs = <<>> THEN Num(0) ELSE RatAdd(xs[1], RatSum(Tail(xs)))

\* np.mean(xs): the sum divided by the length, NaN for an empty list.
Mean(xs) ==
    LET total == RatSum(xs)
    IN  IF xs = <<>> THEN NaN ELSE Rat(total.num, total.den * Len(xs))

\* The literal 0.5 of get_consensus, as a fraction of one vote.
Half == Rat(1, 2)

\* The literal 0.0 of get_consensus.
Zero == Num(0)

\* ---------------------------------------------------------- DetectionResult

\* DetectionResult.__init__
DetectionResult(media_type, filename) ==
    [ media_type        |-> media_type,
      filename          |-> filename,
      predictions       |-> <<>>,
      confidence_scores |-> <<>>,
      metadata          |-> <<>>,
      analysis_details  |-> <<>> ]

\* A mutation of add_prediction: "if confidence:" guards the score, so a
\* confidence of 0.0 is not stored.
add_prediction_truthy_conf(r, model_name, prediction, confidence, details) ==
    [ r EXCEPT
        !.predictions = DictSet(@, model_name, prediction),
        !.confidence_scores =
            IF confidence # Zero THEN DictSet(@, model_name, confidence) ELSE @,
        !.analysis_details =
            IF details # <<>> THEN DictSet(@, model_name, details) ELSE @ ]

\* DetectionResult.add_prediction
add_prediction(r, model_name, prediction, confidence, details) ==
    [ r EXCEPT
        !.predictions = DictSet(@, model_name, prediction),
        !.confidence_scores = DictSet(@, model_name, confidence),
        !.analysis_details =
            IF details # <<>> THEN DictSet(@, model_name, details) ELSE @ ]

\* [1 if v else 0 for v in self.predictions.values()]
is_deepfake_votes(r) ==
    [i \in 1..Len(r.predictions) |->
        IF DictValues(r.predictions)[i] THEN Num(1) ELSE Num(0)]

\* A mutation of get_consensus: no guard for an empty result.
get_consensus_unguarded(r) ==
    << RatGT(Mean(is_deepfake_votes(r)), Half),
       Mean(DictValues(r.confidence_scores)) >>

\* A mutation of get_consensus: a tie counts as a majority.
get_consensus_tie_true(r) ==
    IF r.predictions = <<>> THEN <<FALSE, Zero>>
    ELSE << ~RatGT(Half, Mean(is_deepfake_votes(r))),
            Mean(DictValues(r.confidence_scores)) >>

\* A mutation of get_consensus: only the scores of the "fake" votes count.
get_consensus_weighted(r) ==
    IF r.predictions = <<>> THEN <<FALSE, Zero>>
    ELSE << RatGT(Mean(is_deepfake_votes(r)), Half),
            Mean(DictValues(SelectSeq(r.confidence_scores,
                    LAMBDA e : DictGet(r.predictions, e[1]) = TRUE))) >>

\* DetectionResult.get_consensus
get_consensus(r) ==
    IF r.predictions = <<>> THEN <<FALSE, Zero>>
    ELSE << RatGT(Mean(is_deepfake_votes(r)), Half),
            Mean(DictValues(r.confidence_scores)) >>


\* ------------------------------------------------------------ environment

\* A path is its stem and its extension: os.path.splitext(p) = (stem, ext).
Path(stem, ext) == [stem |-> stem, ext |-> ext]

OkJpg      == Path("ok", ".jpg")
MissingJpg == Path("missing", ".jpg")
CorruptPng == Path("corrupt", ".PNG")
NotesTxt   == Path("notes", ".txt")
ClipMp4    == Path("clip", ".mp4")
BadWav     == Path("bad", ".wav")

Paths == {OkJpg, MissingJpg, CorruptPng, NotesTxt, ClipMp4, BadWav}

\* The file under test, whose content and existence change between calls:
\* every path with the stem "var" names it.
VARIABLE media

\* The files on disk.  "pixels" is what cv2.imread decodes ("None" when it
\* cannot), "stream" the frames a cv2.VideoCapture reads before a read fails,
\* "waveform" whether librosa.load decodes the file, "features" whether
\* librosa's feature extraction succeeds on the waveform, "entropy" the
\* spectral entropy of the mel spectrogram, "fps" the frame rate
\* the capture reports (0 for a file it cannot open).
Disk(p) ==
    CASE p.stem = "var" -> media
      [] p = OkJpg      -> [exists |-> TRUE,  pixels |-> "face",
                            stream |-> <<>>, waveform |-> FALSE,
                            features |-> FALSE, entropy |-> Zero, fps |-> 0]
      [] p = MissingJpg -> [exists |-> FALSE, pixels |-> NoValue,
                            stream |-> <<>>, waveform |-> FALSE,
                            features |-> FALSE, entropy |-> Zero, fps |-> 0]
      [] p = CorruptPng -> [exists |-> TRUE,  pixels |-> NoValue,
                            stream |-> <<>>, waveform |-> FALSE,
                            features |-> FALSE, entropy |-> Zero, fps |-> 0]
      [] p = NotesTxt   -> [exists |-> TRUE,  pixels |-> NoValue,
                            stream |-> <<>>, waveform |-> FALSE,
                            features |-> FALSE, entropy |-> Zero, fps |-> 0]
      [] p = ClipMp4    -> [exists |-> TRUE,  pixels |-> NoValue,
                            stream |-> <<"face", "swap", "swap", "face",
                                         "face", "swap">>,
                            waveform |-> FALSE,
                            features |-> FALSE, entropy |-> Zero, fps |-> 30]
      [] p = BadWav     -> [exists |-> TRUE,  pixels |-> NoValue,
                            stream |-> <<>>, waveform |-> TRUE,
                            features |-> FALSE, entropy |-> Zero, fps |-> 0]

\* The fake-class probability softmax(model(tensor))[0, 1] of a
\* model of the given kind and weights on the given picture.
FakeProbability(kind, weights, pixels) ==
    IF weights = "init" THEN Rat(1, 2)
    ELSE IF pixels = "swap"
         THEN (IF kind = "facial_forensics" THEN Rat(1, 2) ELSE Rat(9, 10))
         ELSE (IF kind = "gan_detector" THEN Rat(3, 5) ELSE Rat(1, 10))

\* config.CONFIDENCE_THRESHOLD
CONFIDENCE_THRESHOLD == Rat(1, 2)

\* config.FRAME_SAMPLE_RATE
FRAME_SAMPLE_RATE == 5

\* -------------------------------------------------------------- exceptions

\* What a call gives back: a value, or an exception on its way up.
Return(v) == [raised |-> FALSE, value |-> v, exc |-> NoValue, msg |-> NoValue]
Raise(exc, msg) == [raised |-> TRUE, value |-> NoValue, exc |-> exc, msg |-> msg]

\* ------------------------------------------------------------ file handler

\* str.lower() on the extensions in use.
Lower(ext) ==
    CASE ext = ".PNG" -> ".png"
      [] ext = ".JPG" -> ".jpg"
      [] ext = ".MP4" -> ".mp4"
      [] ext = ".WAV" -> ".wav"
      [] ext = ".Jpeg" -> ".jpeg"
      [] ext = ".Mov" -> ".mov"
      [] ext = ".M4A" -> ".m4a"
      [] OTHER -> ext

\* A mutation of get_file_type: the extension is compared as written.
get_file_type_case_sensitive(filepath) ==
    IF ~Disk(filepath).exists THEN "unknown"
    ELSE LET ext == filepath.ext
         IN  IF ext \in {".jpg", ".jpeg", ".png", ".gif", ".bmp"} THEN "image"
             ELSE IF ext \in {".mp4", ".avi", ".mov", ".mkv"} THEN "video"
             ELSE IF ext \in {".wav", ".mp3", ".m4a"} THEN "audio"
             ELSE "unknown"

\* file_handler.get_file_type
get_file_type(filepath) ==
    IF ~Disk(filepath).exists THEN "unknown"
    ELSE LET ext == Lower(filepath.ext)
         IN  IF ext \in {".jpg", ".jpeg", ".png", ".gif", ".bmp"} THEN "image"
             ELSE IF ext \in {".mp4", ".avi", ".mov", ".mkv"} THEN "video"
             ELSE IF ext \in {".wav", ".mp3", ".m4a"} THEN "audio"
             ELSE "unknown"

\* ------------------------------------------------------------ media readers

\* ImageProcessor.read_image: the pixels, or None.
read_image(image_path) ==
    IF Disk(image_path).exists THEN Disk(image_path).pixels ELSE NoValue

\* ImageProcessor.get_image_metadata
get_image_metadata(image_path) ==
    IF read_image(image_path) = NoValue THEN <<>>
    ELSE << <<"width", "w">>, <<"height", "h">>, <<"channels", "c">>,
            <<"file_size", "size">> >>

\* VideoProcessor.get_video_properties: the division by a zero fps raises
\* inside the try, and the except clause returns {}.
get_video_properties(video_path) ==
    IF ~Disk(video_path).exists \/ Disk(video_path).fps = 0 THEN <<>>
    ELSE << <<"width", "w">>, <<"height", "h">>,
            <<"fps", "fps">>, <<"frame_count", "n">>, <<"duration", "n/fps">>,
            <<"codec", "fourcc">>, <<"file_size", "size">> >>

RECURSIVE extract_loop(_, _, _, _)
\* The while loop of extract_frames: frame_count counts the frames read.
extract_loop(stream, sample_rate, frame_count, frames) ==
    IF frame_count >= Len(stream) THEN frames
    ELSE extract_loop(stream, sample_rate, frame_count + 1,
            IF frame_count % sample_rate = 0
            THEN Append(frames, stream[frame_count + 1])
            ELSE frames)

\* A mutation of extract_frames: the count starts at 1, past the first frame.
extract_frames_from_one(video_path, sample_rate) ==
    IF ~Disk(video_path).exists \/ sample_rate = 0 THEN <<>>
    ELSE extract_loop(Disk(video_path).stream, sample_rate, 1, <<>>)

\* VideoProcessor.extract_frames: sample_rate = 0 raises at the first
\* modulo, inside the try, and the frames collected so far (none) are returned.
extract_frames(video_path, sample_rate) ==
    IF ~Disk(video_path).exists \/ sample_rate = 0 THEN <<>>
    ELSE extract_loop(Disk(video_path).stream, sample_rate, 0, <<>>)

\* cv2.VideoCapture(path): whether the capture opens, and holds a handle
\* until cap.release().
isOpened(video_path) ==
    /\ Disk(video_path).exists
    /\ Disk(video_path).fps # 0 \/ Disk(video_path).stream # <<>>

\* get_video_properties: whether cap.release(), the statement after the dict
\* literal, runs; the division by a zero fps skips it.
properties_release(video_path) == Disk(video_path).fps # 0

\* extract_frames: whether cap.release(), the last statement of the try
\* body, runs; the modulo by a zero sample_rate on the first frame skips it.
frames_release(video_path, sample_rate) ==
    ~(sample_rate = 0 /\ Disk(video_path).stream # <<>>)

\* AudioProcessor.load_audio: whether the waveform is non-empty.
load_audio(audio_path) == Disk(audio_path).exists /\ Disk(audio_path).waveform

\* AudioProcessor.get_audio_properties
get_audio_properties(audio_path) ==
    IF ~load_audio(audio_path) THEN <<>>
    ELSE << <<"sample_rate", "sr">>, <<"duration", "d">>,
            <<"frame_count", "n">>, <<"file_size", "size">> >>

\* AudioProcessor.extract_mfcc / extract_spectrogram: whether the array is
\* non-empty.
extract_features(audio_path) == Disk(audio_path).features

\* ----------------------------------------------------------- model registry

\* models_config of load_all_models, in its iteration order.
models_config ==
    <<"deepfake_classifier", "gan_detector", "facial_forensics", "face_detection">>

\* model_class(): a freshly initialised module, in training mode, on the CPU.
NewModel(name) ==
    [kind |-> name, weights |-> "init", training |-> TRUE, device |-> "cpu"]

\* ModelRegistry.register_model
register_model(models, device, name, model) ==
    DictSet(models, name, [model EXCEPT !.device = device])

\* ModelRegistry.get_model is DictGet; "if classifier:" is DictHas.
get_model(models, name) == DictGet(models, name)

\* ModelRegistry.list_models
list_models(models) == DictKeys(models)

\* The try body of one iteration of load_all_models, up to register_model:
\* the registry it leaves, or the exception torch.load / load_state_dict
\* raised on a checkpoint that exists and does not load.
load_try(models, device, ckpt, name) ==
    IF ckpt[name] = "corrupt"
    THEN Raise("RuntimeError", "checkpoint does not load")
    ELSE Return(register_model(models, device, name,
            [NewModel(name) EXCEPT
                !.weights = IF ckpt[name] = "valid" THEN "checkpoint" ELSE @]))

\* A mutation of load_on_exception: the exception leaves load_all_models.
load_on_exception_escape(idx) == [pc |-> "raised", idx |-> idx]

\* The except clause of load_all_models: print, and go on with the next kind.
load_on_exception(idx) == [pc |-> "load", idx |-> idx + 1]

\* model.eval() on the module just registered (register_model stored the
\* same object: Module.to returns self).
model_eval(models, name) ==
    [i \in 1..Len(models) |->
        IF models[i][1] = name
        THEN <<name, [models[i][2] EXCEPT !.training = FALSE]>>
        ELSE models[i]]

\* ---------------------------------------------------------------- analyzers

\* A mutation of score_with: an absent model votes "not fake" with score 0.
score_with_absent_votes(result, models, name, pixels) ==
    IF DictHas(models, name)
    THEN LET confidence ==
                 FakeProbability(name, get_model(models, name).weights, pixels)
             is_fake == RatGT(confidence, CONFIDENCE_THRESHOLD)
         IN  add_prediction(result, name, is_fake, confidence, <<>>)
    ELSE add_prediction(result, name, FALSE, Zero, <<>>)

\* A mutation of score_with: the comparison is >=.
score_with_ge(result, models, name, pixels) ==
    IF DictHas(models, name)
    THEN LET confidence ==
                 FakeProbability(name, get_model(models, name).weights, pixels)
             is_fake == ~RatGT(CONFIDENCE_THRESHOLD, confidence)
         IN  add_prediction(result, name, is_fake, confidence, <<>>)
    ELSE result

\* with torch.no_grad(): one "if model:" block of ImageAnalyzer.analyze.
score_with(result, models, name, pixels) ==
    IF DictHas(models, name)
    THEN LET confidence ==
                 FakeProbability(name, get_model(models, name).weights, pixels)
             is_fake == RatGT(confidence, CONFIDENCE_THRESHOLD)
         IN  add_prediction(result, name, is_fake, confidence, <<>>)
    ELSE result

\* A mutation of ImageAnalyzer_analyze: no early return when the image is
\* None.
ImageAnalyzer_analyze_no_guard(models, image_path) ==
    LET result == DetectionResult("image", image_path)
        image  == read_image(image_path)
        r0 == [result EXCEPT !.metadata = get_image_metadata(image_path)]
        r1 == score_with(r0, models, "deepfake_classifier", image)
        r2 == score_with(r1, models, "gan_detector", image)
        r3 == score_with(r2, models, "facial_forensics", image)
    IN  Return(r3)

\* ImageAnalyzer.analyze
ImageAnalyzer_analyze(models, image_path) ==
    LET result == DetectionResult("image", image_path)
        image  == read_image(image_path)
    IN  IF image = NoValue
        THEN Return([result EXCEPT
                !.metadata = DictSet(@, "error", "Failed to read image")])
        ELSE LET r0 == [result EXCEPT !.metadata = get_image_metadata(image_path)]
                 r1 == score_with(r0, models, "deepfake_classifier", image)
                 r2 == score_with(r1, models, "gan_detector", image)
                 r3 == score_with(r2, models, "facial_forensics", image)
             IN  Return(r3)

\* The per-frame loop of VideoAnalyzer.analyze: <<is_fake, confidence>> of
\* every frame, none when the classifier is not registered.
frame_scores(models, frames) ==
    IF DictHas(models, "deepfake_classifier")
    THEN [i \in 1..Len(frames) |->
            LET confidence ==
                    FakeProbability("deepfake_classifier",
                        get_model(models, "deepfake_classifier").weights,
                        frames[i])
            IN  <<RatGT(confidence, CONFIDENCE_THRESHOLD), confidence>>]
    ELSE <<>>

\* A mutation of VideoAnalyzer_analyze: no early return on an empty frame
\* list.
VideoAnalyzer_analyze_no_guard(models, video_path, sample_rate) ==
    LET result == [DetectionResult("video", video_path) EXCEPT
                      !.metadata = get_video_properties(video_path)]
        frames == extract_frames(video_path, sample_rate)
    IN  IF FALSE
        THEN Return([result EXCEPT
                !.metadata = DictSet(@, "error", "Failed to extract frames")])
        ELSE LET scores == frame_scores(models, frames)
                 frame_predictions == [i \in 1..Len(scores) |-> scores[i][1]]
                 frame_confidences == [i \in 1..Len(scores) |-> scores[i][2]]
                 num_fake_frames ==
                     Sum([i \in 1..Len(scores) |->
                            IF frame_predictions[i] THEN 1 ELSE 0])
                 fake_frame_ratio == Rat(num_fake_frames, Len(frame_predictions))
                 is_deepfake == RatGT(fake_frame_ratio, Rat(3, 10))
                 r1 == add_prediction(result, "frame_analysis", is_deepfake,
                          Mean(frame_confidences),
                          << <<"num_frames_analyzed", Len(frame_predictions)>>,
                             <<"num_fake_frames", num_fake_frames>>,
                             <<"fake_frame_ratio", fake_frame_ratio>> >>)
             IN  IF frame_predictions = <<>> THEN Return(result)
                 ELSE Return([r1 EXCEPT !.analysis_details =
                        DictSet(@, "temporal_consistency",
                            << <<"frame_predictions", frame_predictions>>,
                               <<"frame_confidences", frame_confidences>> >>)])

\* A mutation of VideoAnalyzer_analyze: the verdict is ratio >= 0.3.
VideoAnalyzer_analyze_ge(models, video_path, sample_rate) ==
    LET result == [DetectionResult("video", video_path) EXCEPT
                      !.metadata = get_video_properties(video_path)]
        frames == extract_frames(video_path, sample_rate)
    IN  IF frames = <<>>
        THEN Return([result EXCEPT
                !.metadata = DictSet(@, "error", "Failed to extract frames")])
        ELSE LET scores == frame_scores(models, frames)
                 frame_predictions == [i \in 1..Len(scores) |-> scores[i][1]]
                 frame_confidences == [i \in 1..Len(scores) |-> scores[i][2]]
                 num_fake_frames ==
                     Sum([i \in 1..Len(scores) |->
                            IF frame_predictions[i] THEN 1 ELSE 0])
                 fake_frame_ratio == Rat(num_fake_frames, Len(frame_predictions))
                 is_deepfake == ~RatGT(Rat(3, 10), fake_frame_ratio)
                 r1 == add_prediction(result, "frame_analysis", is_deepfake,
                          Mean(frame_confidences),
                          << <<"num_frames_analyzed", Len(frame_predictions)>>,
                             <<"num_fake_frames", num_fake_frames>>,
                             <<"fake_frame_ratio", fake_frame_ratio>> >>)
             IN  IF frame_predictions = <<>> THEN Return(result)
                 ELSE Return([r1 EXCEPT !.analysis_details =
                        DictSet(@, "temporal_consistency",
                            << <<"frame_predictions", frame_predictions>>,
                               <<"frame_confidences", frame_confidences>> >>)])

\* VideoAnalyzer.analyze
VideoAnalyzer_analyze(models, video_path, sample_rate) ==
    LET result == [DetectionResult("video", video_path) EXCEPT
                      !.metadata = get_video_properties(video_path)]
        frames == extract_frames(video_path, sample_rate)
    IN  IF frames = <<>>
        THEN Return([result EXCEPT
                !.metadata = DictSet(@, "error", "Failed to extract frames")])
        ELSE LET scores == frame_scores(models, frames)
                 frame_predictions == [i \in 1..Len(scores) |-> scores[i][1]]
                 frame_confidences == [i \in 1..Len(scores) |-> scores[i][2]]
                 num_fake_frames ==
                     Sum([i \in 1..Len(scores) |->
                            IF frame_predictions[i] THEN 1 ELSE 0])
                 fake_frame_ratio == Rat(num_fake_frames, Len(frame_predictions))
                 is_deepfake == RatGT(fake_frame_ratio, Rat(3, 10))
                 r1 == add_prediction(result, "frame_analysis", is_deepfake,
                          Mean(frame_confidences),
                          << <<"num_frames_analyzed", Len(frame_predictions)>>,
                             <<"num_fake_frames", num_fake_frames>>,
                             <<"fake_frame_ratio", fake_frame_ratio>> >>)
             IN  IF frame_predictions = <<>> THEN Return(result)
                 ELSE Return([r1 EXCEPT !.analysis_details =
                        DictSet(@, "temporal_consistency",
                            << <<"frame_predictions", frame_predictions>>,
                               <<"frame_confidences", frame_confidences>> >>)])

\* A mutation of AudioAnalyzer_analyze: a suspicious sound is reported with
\* confidence 0.9.
AudioAnalyzer_analyze_scaled(models, audio_path) ==
    LET result == DetectionResult("audio", audio_path)
    IN  IF ~load_audio(audio_path)
        THEN Return([result EXCEPT
                !.metadata = DictSet(@, "error", "Failed to load audio")])
        ELSE IF ~extract_features(audio_path)
        THEN Raise("ValueError", "zero-size array to reduction operation minimum")
        ELSE LET spectral_entropy == Disk(audio_path).entropy
                 is_suspicious == RatGT(Num(5), spectral_entropy)
                 r0 == [result EXCEPT
                          !.metadata = get_audio_properties(audio_path),
                          !.analysis_details =
                              << <<"mfcc_stats", "stats">>,
                                 <<"spectrogram_stats", "stats">> >>]
             IN  Return(add_prediction(r0, "audio_analysis", is_suspicious,
                        IF is_suspicious THEN Rat(9, 10) ELSE Rat(1, 2),
                        << <<"spectral_entropy", spectral_entropy>>,
                           <<"suspicious_patterns", is_suspicious>> >>))

\* AudioAnalyzer.analyze: np.min of an empty feature array raises ValueError.
AudioAnalyzer_analyze(models, audio_path) ==
    LET result == DetectionResult("audio", audio_path)
    IN  IF ~load_audio(audio_path)
        THEN Return([result EXCEPT
                !.metadata = DictSet(@, "error", "Failed to load audio")])
        ELSE IF ~extract_features(audio_path)
        THEN Raise("ValueError", "zero-size array to reduction operation minimum")
        ELSE LET spectral_entropy == Disk(audio_path).entropy
                 is_suspicious == RatGT(Num(5), spectral_entropy)
                 r0 == [result EXCEPT
                          !.metadata = get_audio_properties(audio_path),
                          !.analysis_details =
                              << <<"mfcc_stats", "stats">>,
                                 <<"spectrogram_stats", "stats">> >>]
             IN  Return(add_prediction(r0, "audio_analysis", is_suspicious, Rat(1, 2),
                        << <<"spectral_entropy", spectral_entropy>>,
                           <<"suspicious_patterns", is_suspicious>> >>))

\* -------------------------------------------------------------------- state

VARIABLES
    dr,           \* a DetectionResult under construction by its owner
    nAdds,        \* the number of add_prediction calls made on dr
    order,        \* the names added to dr, in the order of their first add
    latest,       \* per name, <<verdict, score>> of its last add, <<>> if none
    consensus,    \* what get_consensus last returned for dr, <<>> before a call
    checkpoints,  \* per model kind: the <kind>.pth file is missing, valid, corrupt
    _models,      \* ModelRegistry._models
    _device,      \* ModelRegistry._device
    loadIdx,      \* position of load_all_models in models_config
    pc,           \* where the engine is
    mode,         \* the entry point running: "none", "single", "batch"
    file_paths,   \* the paths of the running call
    results,      \* the results list of batch_detect
    cur,          \* position of batch_detect's for loop in file_paths
    declared,     \* the media_type argument of the item's outermost detect call
    media_type,   \* the media_type argument of the innermost detect frame
    depth,        \* nested detect frames of the running item
    resolutions,  \* get_file_type calls made for the running item
    outcome,      \* what the last detect / batch_detect call gave its caller
    mout,         \* the last call made on the file under test, and its answer
    config_threshold, \* the attribute CONFIDENCE_THRESHOLD of the config module
    analyzer_device,  \* self.device of the engine's analyzers
    objects,      \* the number of model objects constructed so far
    ids,          \* per registered name, which object _models binds to it
    reader        \* a video analysis running in another thread

resultVars == <<dr, nAdds, order, latest, consensus>>
registryVars == <<checkpoints, _models, _device, loadIdx>>
mediaVars == <<media, mout>>
processVars == <<config_threshold, analyzer_device, objects, ids, reader>>
engineVars == <<pc, mode, file_paths, results, cur, declared, media_type, depth, resolutions,
                outcome>>
vars == <<dr, nAdds, order, latest, consensus, checkpoints, _models, _device, loadIdx, pc, mode,
          file_paths, results, cur, declared, media_type, depth, resolutions,
          outcome, media, mout, config_threshold, analyzer_device, objects, ids,
          reader>>

\* ------------------------------------------------ DetectionResult in use

\* The names the analyzers give their predictions.
PredictionNames ==
    {"deepfake_classifier", "gan_detector", "facial_forensics", "frame_analysis"}

\* Scores handed to add_prediction.
Scores == {Zero, Rat(3, 4)}

\* The details argument: the video analyzer passes a payload, the image
\* analyzer passes none.
DetailsFor(model_name) ==
    IF model_name = "frame_analysis"
    THEN << <<"num_frames_analyzed", 1>> >>
    ELSE <<>>

InitResult ==
    /\ dr = DetectionResult("image", OkJpg)
    /\ nAdds = 0
    /\ order = <<>>
    /\ latest = [n \in PredictionNames |-> <<>>]
    /\ consensus = <<>>

\* result = DetectionResult(media_type, filename) at the start of an analyze()
NewResult(mt, filename) ==
    /\ dr' = DetectionResult(mt, filename)
    /\ nAdds' = 0
    /\ order' = <<>>
    /\ latest' = [n \in PredictionNames |-> <<>>]
    /\ consensus' = <<>>
    /\ UNCHANGED <<registryVars, engineVars, mediaVars,
                 processVars>>

\* result.add_prediction(model_name, prediction, confidence, details); the
\* call is recorded in nAdds, order and latest.
AddPrediction(model_name, prediction, confidence) ==
    /\ nAdds < MaxAdds
    /\ dr' = add_prediction(dr, model_name, prediction, confidence,
                            DetailsFor(model_name))
    /\ nAdds' = nAdds + 1
    /\ order' = IF latest[model_name] = <<>> THEN Append(order, model_name)
                ELSE order
    /\ latest' = [latest EXCEPT ![model_name] = <<prediction, confidence>>]
    /\ consensus' = <<>>
    /\ UNCHANGED <<registryVars, engineVars, mediaVars,
                 processVars>>

\* result.get_consensus()
GetConsensus ==
    /\ consensus' = get_consensus(dr)
    /\ UNCHANGED <<dr, nAdds, order, latest, registryVars, engineVars, mediaVars,
                 processVars>>

NextResult ==
    \/ \E f \in {<<"image", OkJpg>>, <<"video", ClipMp4>>} : NewResult(f[1], f[2])
    \/ \E n \in PredictionNames, v \in BOOLEAN, c \in Scores : AddPrediction(n, v, c)
    \/ GetConsensus

\* ----------------------------------------------------- registry in use

InitRegistry ==
    /\ checkpoints \in [{models_config[i] : i \in 1..Len(models_config)} ->
                            {"missing", "valid", "corrupt"}]
    /\ _models = <<>>
    /\ _device = "cpu"
    /\ loadIdx = 1

\* No file under test, and no call made on it.
NoFile ==
    [exists |-> FALSE, pixels |-> NoValue, stream |-> <<>>, waveform |-> FALSE,
     features |-> FALSE, entropy |-> Zero, fps |-> 0]
NoCall == [op |-> "none"]

InitMedia ==
    /\ media = NoFile
    /\ mout = NoCall

\* The process after "import deepfake_detector": config holds its default,
\* no analyzer and no model object exists, no analysis runs.
InitProcess ==
    /\ config_threshold = Rat(1, 2)
    /\ analyzer_device = NoValue
    /\ objects = 0
    /\ ids = <<>>
    /\ reader = [pc |-> "none", seen |-> <<>>]

InitEngine ==
    /\ pc = "new"
    /\ mode = "none"
    /\ file_paths = <<>>
    /\ results = <<>>
    /\ cur = 0
    /\ declared = NoValue
    /\ media_type = NoValue
    /\ depth = 0
    /\ resolutions = 0
    /\ outcome = Return(<<>>)

\* DetectionEngine.__init__: ModelRegistry(), then load_all_models() begins.
EngineNew ==
    /\ pc = "new"
    /\ pc' = "load"
    /\ loadIdx' = 1
    /\ UNCHANGED <<processVars, mediaVars, resultVars, checkpoints, _models, _device, mode, file_paths,
                   results, cur, declared, media_type, depth, resolutions, outcome>>

\* One iteration of load_all_models, from model_class() to register_model,
\* or to the except clause.
LoadModel ==
    /\ pc = "load"
    /\ loadIdx <= Len(models_config)
    /\ LET r == load_try(_models, _device, checkpoints, models_config[loadIdx])
           next == load_on_exception(loadIdx)
       IN  IF r.raised
           THEN /\ pc' = next.pc
                /\ loadIdx' = next.idx
                /\ outcome' = IF next.pc = "raised" THEN r ELSE outcome
                /\ UNCHANGED <<_models, ids>>
           ELSE /\ _models' = r.value
                /\ ids' = DictSet(ids, models_config[loadIdx], objects + 1)
                /\ pc' = "eval"
                /\ UNCHANGED <<loadIdx, outcome>>
    /\ objects' = objects + 1
    /\ UNCHANGED <<config_threshold, analyzer_device, reader, mediaVars, resultVars,
                   checkpoints, _device, mode, file_paths, results,
                   cur, declared, media_type, depth, resolutions>>

\* model.eval(), the last statement of the try body.
EvalModel ==
    /\ pc = "eval"
    /\ _models' = model_eval(_models, models_config[loadIdx])
    /\ loadIdx' = loadIdx + 1
    /\ pc' = "load"
    /\ UNCHANGED <<processVars, mediaVars, resultVars, checkpoints, _device, mode, file_paths, results,
                   cur, declared, media_type, depth, resolutions, outcome>>

\* load_all_models returns; __init__ builds the three analyzers.
LoadDone ==
    /\ pc = "load"
    /\ loadIdx > Len(models_config)
    /\ pc' = "idle"
    /\ analyzer_device' = _device
    /\ UNCHANGED <<config_threshold, objects, ids, reader, mediaVars, resultVars,
                   registryVars, mode, file_paths, results, cur,
                   declared, media_type, depth, resolutions, outcome>>

\* ------------------------------------------------------- detection engine

MediaTypes == {"image", "video", "audio"}

\* The analyzer branch of DetectionEngine.detect.
analyze(models, file_path, mt) ==
    CASE mt = "image" -> ImageAnalyzer_analyze(models, file_path)
      [] mt = "video" -> VideoAnalyzer_analyze(models, file_path, FRAME_SAMPLE_RATE)
      [] mt = "audio" -> AudioAnalyzer_analyze(models, file_path)

\* A mutation of except_Exception: the clause reads "except ValueError".
except_ValueError(exc) == exc = "ValueError"

\* "except Exception" of batch_detect: whether the clause catches exc.
\* RecursionError, RuntimeError and ValueError all derive from Exception.
except_Exception(exc) == exc \in {"RecursionError", "RuntimeError", "ValueError"}

\* A mutation of batch_except: the result keeps no error message.
batch_except_no_message(rs, file_path, e) ==
    Append(rs, DetectionResult("unknown", file_path))

\* The except clause of batch_detect.
batch_except(rs, file_path, e) ==
    Append(rs, [DetectionResult("unknown", file_path) EXCEPT
                    !.metadata = DictSet(@, "error", e.msg)])

\* The path the innermost detect frame works on.
file_path == file_paths[cur]

\* detect(path, t) is called on an idle engine.
CallDetect(path, t) ==
    /\ pc = "idle"
    /\ mode' = "single"
    /\ file_paths' = <<path>>
    /\ cur' = 1
    /\ results' = <<>>
    /\ declared' = t
    /\ media_type' = t
    /\ depth' = 1
    /\ resolutions' = 0
    /\ pc' = "detect"
    /\ UNCHANGED <<processVars, mediaVars, resultVars, registryVars, outcome>>

\* batch_detect(paths) is called on an idle engine; with no path the loop
\* body never runs.
CallBatchDetect(paths) ==
    /\ pc = "idle"
    /\ mode' = "batch"
    /\ file_paths' = paths
    /\ results' = <<>>
    /\ resolutions' = 0
    /\ declared' = NoValue
    /\ media_type' = NoValue
    /\ IF paths = <<>>
       THEN /\ pc' = "returned"
            /\ cur' = 0
            /\ depth' = 0
            /\ outcome' = Return(<<>>)
       ELSE /\ pc' = "detect"
            /\ cur' = 1
            /\ depth' = 1
            /\ UNCHANGED outcome
    /\ UNCHANGED <<processVars, mediaVars, resultVars, registryVars>>

\* The outermost detect frame of the running item ends with r: the single
\* call hands r to its caller; batch_detect appends the result, or runs its
\* except clause, and moves to the next path.
Finish(r) ==
    IF mode = "single"
    THEN /\ outcome' = r
         /\ pc' = IF r.raised THEN "raised" ELSE "returned"
         /\ depth' = 0
         /\ UNCHANGED <<results, cur, media_type, resolutions>>
    ELSE IF r.raised /\ ~except_Exception(r.exc)
    THEN /\ outcome' = r
         /\ pc' = "raised"
         /\ depth' = 0
         /\ UNCHANGED <<results, cur, media_type, resolutions>>
    ELSE /\ results' = IF r.raised THEN batch_except(results, file_path, r)
                       ELSE Append(results, r.value)
         /\ IF cur < Len(file_paths)
            THEN /\ cur' = cur + 1
                 /\ media_type' = NoValue
                 /\ depth' = 1
                 /\ resolutions' = 0
                 /\ pc' = "detect"
                 /\ UNCHANGED outcome
            ELSE /\ pc' = "returned"
                 /\ depth' = 0
                 /\ outcome' = Return(results')
                 /\ UNCHANGED <<cur, media_type, resolutions>>

\* detect: media_type names an analyzer, which runs and returns or raises.
DetectDispatch ==
    /\ pc = "detect"
    /\ media_type \in MediaTypes
    /\ Finish(analyze(_models, file_path, media_type))
    /\ UNCHANGED <<processVars, mediaVars, resultVars, registryVars, mode, file_paths, declared>>

\* detect, else branch: get_file_type, then self.detect(file_path, detected_type).
DetectResolve ==
    /\ pc = "detect"
    /\ media_type \notin MediaTypes
    /\ depth < RecursionLimit
    /\ media_type' = get_file_type(file_path)
    /\ resolutions' = resolutions + 1
    /\ depth' = depth + 1
    /\ UNCHANGED <<processVars, mediaVars, resultVars, registryVars, pc, mode, file_paths, results, cur,
                   declared, outcome>>

\* detect, else branch, with the stack full: the call raises RecursionError,
\* which unwinds every detect frame of the item.
DetectOverflow ==
    /\ pc = "detect"
    /\ media_type \notin MediaTypes
    /\ depth >= RecursionLimit
    /\ Finish(Raise("RecursionError", "maximum recursion depth exceeded"))
    /\ UNCHANGED <<processVars, mediaVars, resultVars, registryVars, mode, file_paths, declared>>

\* The caller takes the outcome; the engine is idle again.
Done ==
    /\ pc \in {"returned", "raised"}
    /\ mode # "none"
    /\ pc' = "idle"
    /\ mode' = "none"
    /\ file_paths' = <<>>
    /\ results' = <<>>
    /\ cur' = 0
    /\ declared' = NoValue
    /\ media_type' = NoValue
    /\ depth' = 0
    /\ resolutions' = 0
    /\ outcome' = Return(<<>>)
    /\ UNCHANGED <<processVars, mediaVars, resultVars, registryVars>>

RECURSIVE SeqsUpTo(_, _)
\* The sequences over S of length at most n.
SeqsUpTo(S, n) ==
    IF n = 0 THEN {<<>>}
    ELSE LET shorter == SeqsUpTo(S, n - 1)
         IN  shorter \cup {Append(q, x) : q \in shorter, x \in S}

\* The media_type arguments callers pass: omitted, or a declared type.
DeclaredTypes == {NoValue, "image", "video", "audio", "unknown", "text"}

NextEngine ==
    \/ EngineNew
    \/ LoadModel
    \/ EvalModel
    \/ LoadDone
    \/ \E p \in Paths, t \in DeclaredTypes : CallDetect(p, t)
    \/ \E ps \in SeqsUpTo(Paths, MaxBatch) : CallBatchDetect(ps)
    \/ DetectDispatch
    \/ DetectResolve
    \/ DetectOverflow
    \/ Done

\* ----------------------------------------------------------- specifications

Init == InitResult /\ InitRegistry /\ InitEngine /\ InitMedia /\ InitProcess

\* The engine: construction, then detect and batch_detect calls.
Spec == Init /\ [][NextEngine]_vars

\* A DetectionResult in the hands of its analyzer.
InitContainer ==
    /\ InitResult
    /\ InitEngine
    /\ InitMedia
    /\ InitProcess
    /\ checkpoints = [k \in {models_config[i] : i \in 1..Len(models_config)} |->
                          "missing"]
    /\ _models = <<>>
    /\ _device = "cpu"
    /\ loadIdx = 1

SpecResult == InitContainer /\ [][NextResult]_vars

\* ------------------------------------------------- readers and analyzers

\* The longest stream stored in the file under test.
MaxFrames == 10

\* The sample_rate arguments of the analyzer and of the reader.
SampleRates == 1..3

\* The extensions of the paths handed to get_file_type.
Extensions ==
    {".jpg", ".jpeg", ".Jpeg", ".png", ".PNG", ".gif", ".bmp",
     ".mp4", ".MP4", ".avi", ".mov", ".Mov", ".mkv",
     ".wav", ".WAV", ".mp3", ".m4a", ".M4A", ".txt", ".webp", ""}

\* A path of the file under test.
VarFile(ext) == Path("var", ext)

\* What is written to the file under test: a picture, a sound (which
\* librosa's feature extraction accepts or not, with a spectral entropy that
\* is NaN, below, at or above 5.0), or a file with no readable frame yet
\* whose capture reports a frame rate of 30, or of 0.
MediaFiles ==
    {[NoFile EXCEPT !.exists = TRUE, !.pixels = px] : px \in {"face", "swap"}}
    \cup {[NoFile EXCEPT !.exists = TRUE, !.waveform = TRUE,
                         !.features = TRUE, !.entropy = e] :
              e \in {NaN, Num(3), Num(5), Num(7)}}
    \cup {[NoFile EXCEPT !.exists = TRUE, !.waveform = TRUE]}
    \cup {[NoFile EXCEPT !.exists = TRUE, !.fps = r] : r \in {0, 30}}
    \cup {NoFile}

\* The file under test is written, replaced or removed.
Store(m) ==
    /\ pc = "idle"
    /\ mout = NoCall
    /\ media # m
    /\ media' = m
    /\ UNCHANGED <<mout, resultVars, registryVars, engineVars,
                 processVars>>

\* One more readable frame at the end of a video file.
AppendFrame(f) ==
    /\ pc = "idle"
    /\ mout = NoCall
    /\ media.exists
    /\ media.pixels = NoValue
    /\ ~media.waveform
    /\ Len(media.stream) < MaxFrames
    /\ media' = [media EXCEPT !.stream = Append(@, f)]
    /\ UNCHANGED <<mout, resultVars, registryVars, engineVars,
                 processVars>>

\* A call on the file under test returns op's answer to its caller.
Call(op, arg, out) ==
    /\ pc = "idle"
    /\ mout = NoCall
    /\ mout' = [op |-> op, arg |-> arg, out |-> out]
    /\ UNCHANGED <<media, resultVars, registryVars, engineVars,
                 processVars>>

\* ImageAnalyzer().analyze(path)
AnalyzeImage ==
    Call("ImageAnalyzer.analyze", NoValue,
         ImageAnalyzer_analyze(_models, VarFile(".jpg")))

\* VideoAnalyzer().analyze(path, sample_rate)
AnalyzeVideo(sample_rate) ==
    Call("VideoAnalyzer.analyze", sample_rate,
         VideoAnalyzer_analyze(_models, VarFile(".mp4"), sample_rate))

\* AudioAnalyzer().analyze(path)
AnalyzeAudio ==
    Call("AudioAnalyzer.analyze", NoValue,
         AudioAnalyzer_analyze(_models, VarFile(".wav")))

\* A call of a video reader returns: "handle" tells whether the capture it
\* opened is still unreleased.
CallReader(op, arg, out, released) ==
    /\ pc = "idle"
    /\ mout = NoCall
    /\ mout' = [op |-> op, arg |-> arg, out |-> out,
                handle |-> isOpened(VarFile(".mp4")) /\ ~released]
    /\ UNCHANGED <<media, resultVars, registryVars, engineVars,
                 processVars>>

\* VideoProcessor.extract_frames(path, sample_rate)
ExtractFrames(sample_rate) ==
    CallReader("extract_frames", sample_rate,
               extract_frames(VarFile(".mp4"), sample_rate),
               frames_release(VarFile(".mp4"), sample_rate))

\* VideoProcessor.get_video_properties(path)
GetVideoProperties ==
    CallReader("get_video_properties", NoValue,
               get_video_properties(VarFile(".mp4")),
               properties_release(VarFile(".mp4")))

\* get_file_type(path)
GetFileType(ext) ==
    Call("get_file_type", ext, get_file_type(VarFile(ext)))

\* The caller has taken the answer.
Taken ==
    /\ mout # NoCall
    /\ mout' = NoCall
    /\ UNCHANGED <<media, resultVars, registryVars, engineVars,
                 processVars>>

NextMedia ==
    \/ EngineNew
    \/ LoadModel
    \/ EvalModel
    \/ LoadDone
    \/ \E m \in MediaFiles : Store(m)
    \/ \E f \in {"face", "swap"} : AppendFrame(f)
    \/ AnalyzeImage
    \/ \E n \in SampleRates : AnalyzeVideo(n)
    \/ AnalyzeAudio
    \/ \E n \in SampleRates \cup {0} : ExtractFrames(n)
    \/ GetVideoProperties
    \/ \E ext \in Extensions : GetFileType(ext)
    \/ Taken

\* The engine is constructed next to checkpoint files of which the
\* classifier's is missing, valid or corrupt.
InitAnalyzers ==
    /\ InitResult
    /\ InitEngine
    /\ InitMedia
    /\ InitProcess
    /\ checkpoints \in
           {[k \in {models_config[i] : i \in 1..Len(models_config)} |->
                IF k = "deepfake_classifier" THEN c ELSE "valid"] :
              c \in {"missing", "valid", "corrupt"}}
    /\ _models = <<>>
    /\ _device = "cpu"
    /\ loadIdx = 1

SpecMedia == InitAnalyzers /\ [][NextMedia]_vars

\* ------------------------------------------------------ run-time settings

\* The values a caller assigns to config.CONFIDENCE_THRESHOLD: the default,
\* and the stricter 0.7.
Thresholds == {Rat(1, 2), Rat(7, 10)}

\* config.CONFIDENCE_THRESHOLD = t, between two calls of an engine that is
\* already constructed.  The name CONFIDENCE_THRESHOLD of detection_engine
\* was bound by "from deepfake_detector.config import" when that module was
\* first imported, and the assignment does not rebind it.
AssignThreshold(t) ==
    /\ pc = "idle"
    /\ config_threshold # t
    /\ config_threshold' = t
    /\ UNCHANGED <<analyzer_device, objects, ids, reader, mediaVars, resultVars,
                   registryVars, engineVars>>

NextConfig ==
    \/ NextEngine
    \/ \E t \in Thresholds : AssignThreshold(t)

SpecConfig == InitAnalyzers /\ [][NextConfig]_vars

\* ------------------------------------------- shared registry, two threads

\* The devices a caller names.
Devices == {"cpu", "cuda"}

\* The most model objects constructed before a further engine is constructed.
MaxObjects == 5

\* The frames of the video a concurrent analysis scores.
MaxReads == 2

\* A mutation of set_device: the models stay where they are.
set_device_config_only(models, device) == models

\* The loop of ModelRegistry.set_device: model.to(device) moves a module in
\* place and the dict keeps binding the same objects.
set_device(models, device) ==
    [i \in 1..Len(models) |->
        <<models[i][1], [models[i][2] EXCEPT !.device = device]>>]

\* ModelRegistry.set_device(d), before an engine exists or between calls.
SetDevice(d) ==
    /\ pc \in {"new", "idle"}
    /\ _device' = d
    /\ _models' = set_device(_models, d)
    /\ mout' = [op |-> "set_device", arg |-> d]
    /\ UNCHANGED <<processVars, media, resultVars, checkpoints, loadIdx, engineVars>>

\* One more DetectionEngine() is constructed: ModelRegistry._models is a class
\* attribute, so load_all_models registers into the dict already in use.
EngineAgain ==
    /\ pc = "idle"
    /\ objects < MaxObjects
    /\ pc' = "load"
    /\ loadIdx' = 1
    /\ UNCHANGED <<processVars, mediaVars, resultVars, checkpoints, _models, _device,
                   mode, file_paths, results, cur, declared, media_type, depth,
                   resolutions, outcome>>

\* Another thread enters the frame loop of VideoAnalyzer.analyze on an
\* engine that is constructed.
ReaderStart ==
    /\ pc = "idle"
    /\ reader.pc # "frames"
    /\ reader' = [pc |-> "frames", seen |-> <<>>]
    /\ UNCHANGED <<config_threshold, analyzer_device, objects, ids, mediaVars,
                   resultVars, registryVars, engineVars>>

\* One pass of the frame loop: get_model('deepfake_classifier') and, if it is
\* not None, the forward pass; "seen" keeps which object scored the frame (0
\* for None) and the mode it was in.
ReaderFrame ==
    /\ reader.pc = "frames"
    /\ Len(reader.seen) < MaxReads
    /\ reader' = [reader EXCEPT !.seen = Append(@,
            IF DictHas(_models, "deepfake_classifier")
            THEN [id |-> DictGet(ids, "deepfake_classifier"),
                  training |-> get_model(_models, "deepfake_classifier").training]
            ELSE [id |-> 0, training |-> FALSE])]
    /\ UNCHANGED <<config_threshold, analyzer_device, objects, ids, mediaVars,
                   resultVars, registryVars, engineVars>>

\* The frame loop ends and the analysis returns.
ReaderDone ==
    /\ reader.pc = "frames"
    /\ Len(reader.seen) = MaxReads
    /\ reader' = [reader EXCEPT !.pc = "done"]
    /\ UNCHANGED <<config_threshold, analyzer_device, objects, ids, mediaVars,
                   resultVars, registryVars, engineVars>>

NextProcess ==
    \/ EngineNew
    \/ LoadModel
    \/ EvalModel
    \/ LoadDone
    \/ EngineAgain
    \/ \E d \in Devices : SetDevice(d)
    \/ ReaderStart
    \/ ReaderFrame
    \/ ReaderDone

SpecProcess == InitAnalyzers /\ [][NextProcess]_vars

\* ------------------------------------------------------------ web upload

\* config.MAX_FILE_SIZE
MAX_FILE_SIZE == 500 * 1024 * 1024

\* config.ALLOWED_EXTENSIONS, each written with the dot that precedes it in a
\* file name.
ALLOWED_EXTENSIONS ==
    {".mp4", ".avi", ".mov", ".mkv", ".jpg", ".jpeg", ".png", ".gif", ".bmp",
     ".wav", ".mp3", ".m4a"}

\* file_handler.allowed_file: the name has a dot, and what follows its last
\* dot, lower-cased, is an allowed extension.
allowed_file(filename) ==
    filename.ext # "" /\ Lower(filename.ext) \in ALLOWED_EXTENSIONS

\* file_handler.validate_upload: <<is_valid, error_message>>.
validate_upload(filename, file_size) ==
    IF filename = Path("", "") THEN <<FALSE, "No filename provided">>
    ELSE IF ~allowed_file(filename) THEN <<FALSE, "File type not allowed">>
    ELSE IF file_size > MAX_FILE_SIZE THEN <<FALSE, "File too large">>
    ELSE IF file_size = 0 THEN <<FALSE, "File is empty">>
    ELSE <<TRUE, "">>

\* The upload_file view of web/app.py on a request; detected tells whether
\* the detection and the report generation inside the try end without an
\* exception.
upload_file(request, detected) ==
    IF ~request.has_file
    THEN [status |-> 400, error |-> "No file provided", detect |-> FALSE]
    ELSE IF request.filename = Path("", "")
    THEN [status |-> 400, error |-> "No filename", detect |-> FALSE]
    ELSE LET v == validate_upload(request.filename, 0)
         IN  IF ~v[1]
             THEN [status |-> 400, error |-> v[2], detect |-> FALSE]
             ELSE IF detected
             THEN [status |-> 200, error |-> "", detect |-> TRUE]
             ELSE [status |-> 500, error |-> "str(e)", detect |-> TRUE]

\* The names clients give their uploads, and the sizes of the bodies.
UploadNames == {Path("upload", ext) : ext \in Extensions} \cup {Path("", "")}
UploadSizes == {0, 1, MAX_FILE_SIZE, MAX_FILE_SIZE + 1}

\* POST /api/upload is answered.
UploadFile(request, detected) ==
    /\ mout = NoCall
    /\ mout' = [op |-> "upload_file", arg |-> request,
                out |-> upload_file(request, detected)]
    /\ UNCHANGED <<media, resultVars, registryVars, engineVars,
                 processVars>>

\* validate_upload(filename, file_size) is called.
ValidateUpload(filename, file_size) ==
    /\ mout = NoCall
    /\ mout' = [op |-> "validate_upload",
                arg |-> [filename |-> filename, size |-> file_size],
                out |-> validate_upload(filename, file_size)]
    /\ UNCHANGED <<media, resultVars, registryVars, engineVars,
                 processVars>>

NextUpload ==
    \/ \E has_file \in BOOLEAN, name \in UploadNames, size \in UploadSizes,
          detected \in BOOLEAN :
            UploadFile([has_file |-> has_file, filename |-> name, size |-> size],
                       detected)
    \/ \E name \in UploadNames, size \in UploadSizes : ValidateUpload(name, size)
    \/ Taken

SpecUpload == InitContainer /\ [][NextUpload]_vars

\* ---------------------------------------------------------------- forensics

\* The longest side, in pixels, of the images handed to the forensic analyzer.
MaxSide == 17

\* block_size of detect_compression_artifacts.
block_size == 8

\* The 8x8 blocks that lie wholly inside an h x w image, as <<row, column>>
\* in units of blocks.
FullBlocks(h, w) == (0..((h \div block_size) - 1)) \X (0..((w \div block_size) - 1))

\* A decoded image: its shape, and the blocks whose top row or left column
\* has a variance above 100.
Images ==
    UNION {{[h |-> d[1], w |-> d[2], edgy |-> e] :
                e \in SUBSET FullBlocks(d[1], d[2])} :
           d \in (1..MaxSide) \X (1..MaxSide)}

\* range(0, stop, block_size), in units of blocks.
BlockRange(stop) == {k \in 0..MaxSide : k * block_size < stop}

\* ArtifactAnalyzer.detect_compression_artifacts: the quotient of two ints
\* raises ZeroDivisionError when the divisor is 0.
detect_compression_artifacts(image) ==
    LET visited == BlockRange(image.h - block_size)
                       \X BlockRange(image.w - block_size)
        artifact_score == Cardinality(visited \cap image.edgy)
        blocks == (image.h \div block_size) * (image.w \div block_size)
    IN  IF blocks = 0 THEN Raise("ZeroDivisionError", "division by zero")
        ELSE Return(<< <<"compression_artifact_score", Rat(artifact_score, blocks)>>,
                       <<"likely_compressed",
                         RatGT(Rat(artifact_score, blocks), Rat(3, 10))>> >>)

\* ForensicAnalyzer.analyze_image(path, image_array): the file-level entries,
\* then the image-level analyses, of which the compression analysis is the
\* first; no statement of it catches an exception.
analyze_image(image_array) ==
    LET compression == detect_compression_artifacts(image_array)
    IN  IF compression.raised THEN compression
        ELSE Return(<< <<"metadata", "exif">>,
                       <<"file_properties", "properties">>,
                       <<"file_headers", "headers">>,
                       <<"compression_analysis", compression.value>>,
                       <<"noise_analysis", "noise">>,
                       <<"color_analysis", "color">>,
                       <<"edge_analysis", "edge">>,
                       <<"lighting_analysis", "lighting">>,
                       <<"shadow_analysis", "shadow">> >>)

\* A call of the forensic analyzer returns or raises.
CallForensics(op, image, out) ==
    /\ mout = NoCall
    /\ mout' = [op |-> op, arg |-> image, out |-> out]
    /\ UNCHANGED <<media, resultVars, registryVars, engineVars,
                 processVars>>

NextForensics ==
    \/ \E image \in Images :
          CallForensics("detect_compression_artifacts", image,
                        detect_compression_artifacts(image))
    \/ \E image \in Images :
          CallForensics("analyze_image", image, analyze_image(image))
    \/ Taken

SpecForensics == InitContainer /\ [][NextForensics]_vars

\* ------------------------------------------------------------------ claims

\* The number of "fake" votes stored in a result.
TrueVotes(r) ==
    Cardinality({i \in 1..Len(r.predictions) : r.predictions[i][2] = TRUE})

RECURSIVE TotalOver(_, _)
\* The sum of the scores a dict stores under the names in S.
TotalOver(d, S) ==
    IF S = {} THEN Num(0)
    ELSE LET n == CHOOSE x \in S : TRUE
         IN  RatAdd(TotalOver(d, S \ {n}), DictGet(d, n))

\* C6: for every DetectionResult whose predictions map is empty,
\* get_consensus returns (false, 0.0).
C6_EmptyConsensus ==
    (consensus # <<>> /\ dr.predictions = <<>>) => consensus = <<FALSE, Num(0)>>

\* get_consensus has run on a freshly constructed video result, which holds
\* no prediction.
C6_Witness == consensus # <<>> /\ dr.predictions = <<>> /\ dr.media_type = "video"

C8_MeanOfAllScores ==
    (consensus # <<>> /\ dr.predictions # <<>>) =>
        LET total == TotalOver(dr.confidence_scores, KeySet(dr.confidence_scores))
            M == Len(dr.confidence_scores)
        IN  /\ ~IsNaN(consensus[2])
            /\ consensus[2].num * total.den * M = total.num * consensus[2].den

\* get_consensus has run on a result whose votes disagree and whose scores
\* differ between the majority and the minority.
C8_Witness ==
    /\ consensus # <<>>
    /\ Len(dr.predictions) = 3
    /\ TrueVotes(dr) = 2
    /\ \E i, j \in 1..Len(dr.predictions) :
          /\ dr.predictions[i][2] = TRUE
          /\ dr.predictions[j][2] = FALSE
          /\ DictGet(dr.confidence_scores, dr.predictions[i][1]) = Zero
          /\ DictGet(dr.confidence_scores, dr.predictions[j][1]) = Rat(3, 4)

\* C9: in every reachable state of a DetectionResult the key set of
\* predictions equals the key set of confidence_scores.
C9_SameKeySet == KeySet(dr.predictions) = KeySet(dr.confidence_scores)

\* A name has been added twice to a result that holds two names, one of them
\* with the score 0.0.
C9_Witness ==
    /\ nAdds > Len(order)
    /\ Len(dr.predictions) = 2
    /\ \E i \in 1..Len(dr.confidence_scores) : dr.confidence_scores[i][2] = Zero

\* C10: after N add_prediction calls, predictions and confidence_scores hold
\* exactly the names added, each with the verdict and confidence of its most
\* recent add, the keys in the order of first insertion.
C10_RoundTrip ==
    /\ DictKeys(dr.predictions) = order
    /\ DictKeys(dr.confidence_scores) = order
    /\ \A n \in PredictionNames :
          IF latest[n] = <<>>
          THEN ~DictHas(dr.predictions, n) /\ ~DictHas(dr.confidence_scores, n)
          ELSE /\ DictHas(dr.predictions, n)
               /\ DictHas(dr.confidence_scores, n)
               /\ DictGet(dr.predictions, n) = latest[n][1]
               /\ DictGet(dr.confidence_scores, n) = latest[n][2]

\* Three adds have put two names in the result: one name was added twice.
C10_Witness ==
    /\ nAdds = 3
    /\ Len(order) = 2
    /\ latest[order[1]] # latest[order[2]]

\* Whether metadata carries a populated error message.
HasError(r) == DictHas(r.metadata, "error") /\ DictGet(r.metadata, "error") # ""

\* detect(p) with the type omitted ends in an exception: the type of p does
\* not resolve to an analyzer, or the analyzer raises.
Raises(p) ==
    \/ get_file_type(p) \notin MediaTypes
    \/ analyze(_models, p, get_file_type(p)).raised

\* p exists and has a recognized extension, and its reader returns absent
\* or empty.
DecodeError(p) ==
    /\ Disk(p).exists
    /\ CASE get_file_type(p) = "image" -> read_image(p) = NoValue
         [] get_file_type(p) = "video" -> extract_frames(p, FRAME_SAMPLE_RATE) = <<>>
         [] get_file_type(p) = "audio" -> ~load_audio(p)
         [] OTHER -> FALSE

\* C1: detect(path) with the media type omitted, for a path whose type
\* resolves to 'unknown', resolves the type once, does not raise, and
\* returns a result that reports 'unknown'.
C1_UnknownIsTerminal ==
    (pc \in {"detect", "returned", "raised"} /\ mode = "single"
        /\ declared = NoValue /\ get_file_type(file_path) = "unknown") =>
        /\ resolutions <= 1
        /\ pc # "raised"
        /\ pc = "returned" => outcome.value.media_type = "unknown"

\* C2 as stated: in a finished batch every path whose processing fails
\* (missing file, decode error of an existing file with a recognized
\* extension, exception) has a result of media_type 'unknown' with a
\* populated error message, and every other result is the one its path gets
\* when processed alone.
C2_FailuresAreUnknown ==
    (mode = "batch" /\ pc = "returned") =>
        \A i \in 1..Len(file_paths) :
            /\ i <= Len(results)
            /\ IF ~Disk(file_paths[i]).exists \/ DecodeError(file_paths[i])
                    \/ Raises(file_paths[i])
               THEN results[i].media_type = "unknown" /\ HasError(results[i])
               ELSE results[i] =
                       analyze(_models, file_paths[i],
                               get_file_type(file_paths[i])).value

\* C2, amended: in a finished batch every path whose detect call raises
\* (missing file, unrecognized extension, exception inside an analyzer) has a
\* result of media_type 'unknown' with a populated error message; a path
\* whose reader returns absent or empty has a result of its own media type
\* with an error marker and no prediction; every other result is the one its
\* path gets when processed alone.
C2_RaisedAreUnknown ==
    (mode = "batch" /\ pc = "returned") =>
        \A i \in 1..Len(file_paths) :
            /\ i <= Len(results)
            /\ IF Raises(file_paths[i])
               THEN results[i].media_type = "unknown" /\ HasError(results[i])
               ELSE IF DecodeError(file_paths[i])
               THEN /\ results[i].media_type = get_file_type(file_paths[i])
                    /\ HasError(results[i])
                    /\ results[i].predictions = <<>>
               ELSE /\ results[i] =
                          analyze(_models, file_paths[i],
                                  get_file_type(file_paths[i])).value
                    /\ ~DictHas(results[i].metadata, "error")

\* A batch of a missing file and an image that does not decode has returned:
\* the first result is 'unknown', the second 'image', both with an error.
C2_Witness ==
    /\ mode = "batch"
    /\ pc = "returned"
    /\ file_paths = <<MissingJpg, CorruptPng>>
    /\ Len(results) = 2
    /\ results[1].media_type = "unknown"
    /\ results[2].media_type = "image"
    /\ HasError(results[1])
    /\ HasError(results[2])

\* C3: batch_detect returns normally, with one result per input path, the
\* i-th result carrying the i-th path; the paths are processed in list order,
\* each completing before the next starts.
C3_BatchTotalAndOrdered ==
    mode = "batch" =>
        /\ pc # "raised"
        /\ Len(results) = IF pc = "detect" THEN cur - 1 ELSE Len(file_paths)
        /\ \A i \in 1..Len(results) : results[i].filename = file_paths[i]
        /\ pc = "returned" => outcome = Return(results)

\* A batch whose first path raised inside detect has returned both results.
C3_Witness ==
    /\ mode = "batch"
    /\ pc = "returned"
    /\ Len(file_paths) = 2
    /\ Raises(file_paths[1])
    /\ ~Raises(file_paths[2])
    /\ Len(results) = 2

\* C4: after load_all_models returns, every known model kind is registered,
\* a kind whose checkpoint exists and fails to load with its freshly
\* initialised weights.
C4_AllKindsRegistered ==
    pc = "idle" =>
        \A i \in 1..Len(models_config) :
            /\ DictHas(_models, models_config[i])
            /\ checkpoints[models_config[i]] = "corrupt" =>
                   get_model(_models, models_config[i]).weights = "init"

\* C5: load_all_models never raises, and a kind whose checkpoint does not
\* fail to load is registered whatever happened to the kinds before it.
C5_LoadFailureIsolated ==
    /\ mode = "none" => pc # "raised"
    /\ \A i \in 1..Len(models_config) :
          (pc \notin {"new"} /\ i < loadIdx
              /\ checkpoints[models_config[i]] # "corrupt") =>
              DictHas(_models, models_config[i])

\* load_all_models has returned after the first kind's checkpoint failed to
\* load, and the kinds after it are registered.
C5_Witness ==
    /\ pc = "idle"
    /\ checkpoints["deepfake_classifier"] = "corrupt"
    /\ checkpoints["gan_detector"] = "valid"
    /\ checkpoints["facial_forensics"] = "missing"
    /\ DictHas(_models, "gan_detector")
    /\ DictHas(_models, "facial_forensics")
    /\ DictHas(_models, "face_detection")

\* The results of finished analyses the engine holds: the result of a
\* returned detect call, or the results of the running batch, each with the
\* path it was computed for.
Finished ==
    IF mode = "single" /\ pc = "returned"
    THEN {<<file_paths[1], outcome.value>>}
    ELSE IF mode = "batch"
    THEN {<<file_paths[i], results[i]>> : i \in 1..Len(results)}
    ELSE {}

\* The image models in the order ImageAnalyzer.analyze evaluates them.
ImageModels == <<"deepfake_classifier", "gan_detector", "facial_forensics">>

AboveHalf(c) == 2 * c.num > c.den

\* C20: in every result of ImageAnalyzer.analyze each per-model vote is
\* (confidence > 0.5) with a strict comparison, so a fake-class probability
\* of exactly 0.5 is a "not fake" vote; the per-frame booleans of the video
\* path follow the same rule.
C20_StrictThreshold ==
    \A f \in Finished :
        /\ f[2].media_type = "image" =>
              \A i \in 1..Len(f[2].predictions) :
                  /\ f[2].confidence_scores[i][1] = f[2].predictions[i][1]
                  /\ f[2].predictions[i][2] =
                         AboveHalf(f[2].confidence_scores[i][2])
        /\ (f[2].media_type = "video"
                /\ DictHas(f[2].analysis_details, "temporal_consistency")) =>
              LET tc == DictGet(f[2].analysis_details, "temporal_consistency")
                  frame_predictions == DictGet(tc, "frame_predictions")
                  frame_confidences == DictGet(tc, "frame_confidences")
              IN  /\ Len(frame_predictions) = Len(frame_confidences)
                  /\ \A j \in 1..Len(frame_predictions) :
                         frame_predictions[j] = AboveHalf(frame_confidences[j])

\* A batch analyzed an image and a video with a freshly initialized
\* classifier and a trained GAN detector: the classifier's probability of
\* exactly 0.5 is a "not fake" vote on the image and on every sampled frame,
\* while the GAN detector's 0.6 is a "fake" vote.
C20_Witness ==
    /\ mode = "batch"
    /\ file_paths = <<OkJpg, ClipMp4>>
    /\ Len(results) = 2
    /\ DictHas(results[1].predictions, "deepfake_classifier")
    /\ DictHas(results[1].predictions, "gan_detector")
    /\ DictGet(results[1].confidence_scores, "deepfake_classifier") = Half
    /\ DictGet(results[1].predictions, "deepfake_classifier") = FALSE
    /\ DictGet(results[1].confidence_scores, "gan_detector") = Rat(3, 5)
    /\ DictGet(results[1].predictions, "gan_detector") = TRUE
    /\ DictHas(results[2].analysis_details, "temporal_consistency")
    /\ DictGet(DictGet(results[2].analysis_details, "temporal_consistency"),
               "frame_confidences") = <<Half, Half>>
    /\ DictGet(DictGet(results[2].analysis_details, "temporal_consistency"),
               "frame_predictions") = <<FALSE, FALSE>>

\* C19: detect(path, t) with a declared type t outside image, video, audio
\* (such as 'unknown' or 'text') gives an explicit failure result: what it
\* returns is never an analysis under a type derived from the extension.
C19_UndeclaredTypeRejected ==
    (/\ mode = "single"
     /\ declared \notin MediaTypes \cup {NoValue}
     /\ pc = "returned") =>
        /\ outcome.value.media_type \notin MediaTypes
        /\ HasError(outcome.value)
        /\ outcome.value.predictions = <<>>

\* C13: when frame extraction yields no frame (a zero-frame, corrupt or
\* unreadable video), VideoAnalyzer.analyze does not raise and returns a
\* 'video' result with the frame-extraction error marker in metadata and no
\* prediction, whose consensus is (false, 0.0).
C13_NoFramesIsMarked ==
    /\ \A f \in Finished :
          (f[2].media_type = "video"
               /\ extract_frames(f[1], FRAME_SAMPLE_RATE) = <<>>) =>
              /\ DictHas(f[2].metadata, "error")
              /\ DictGet(f[2].metadata, "error") = "Failed to extract frames"
              /\ f[2].predictions = <<>>
              /\ f[2].confidence_scores = <<>>
              /\ get_consensus(f[2]) = <<FALSE, Num(0)>>
    /\ (mode = "single" /\ pc = "raised") =>
          ~(media_type = "video"
               /\ extract_frames(file_paths[1], FRAME_SAMPLE_RATE) = <<>>)

\* detect was called with the declared type 'video' on a path that cannot be
\* opened, and returned the marked result.
C13_Witness ==
    /\ mode = "single"
    /\ pc = "returned"
    /\ file_paths = <<MissingJpg>>
    /\ declared = "video"
    /\ outcome.value.media_type = "video"
    /\ HasError(outcome.value)
    /\ outcome.value.predictions = <<>>

\* A result that reports a failure and nothing else.
OnlyError(r) ==
    /\ HasError(r)
    /\ r.predictions = <<>>
    /\ r.confidence_scores = <<>>
    /\ r.analysis_details = <<>>

\* C17: when the image reader returns None, or the audio reader an empty
\* waveform, the analyzer returns early without raising: the result keeps
\* the analyzer's media type, has an error marker in metadata, no prediction
\* and no diagnostic payload.
C17_DecodeFailureReturnsEarly ==
    /\ \A f \in Finished :
          /\ (f[2].media_type = "image" /\ read_image(f[1]) = NoValue) =>
                 OnlyError(f[2])
          /\ (f[2].media_type = "audio" /\ ~load_audio(f[1])) =>
                 OnlyError(f[2])
    /\ (/\ mode = "single"
        /\ pc \in {"returned", "raised"}
        /\ \/ media_type = "image" /\ read_image(file_paths[1]) = NoValue
           \/ media_type = "audio" /\ ~load_audio(file_paths[1])) =>
          /\ pc = "returned"
          /\ outcome.value.media_type = media_type

\* detect returned for an existing file with an image extension that
\* cv2.imread cannot decode.
C17_Witness ==
    /\ mode = "single"
    /\ pc = "returned"
    /\ file_paths = <<CorruptPng>>
    /\ outcome.value.media_type = "image"
    /\ DictHas(outcome.value.metadata, "error")
    /\ DictGet(outcome.value.metadata, "error") = "Failed to read image"
    /\ outcome.value.predictions = <<>>

\* The positions of the file's readable frames that a reader with the given
\* sample rate keeps.
SampledPositions(sample_rate) ==
    {i \in 0..(Len(media.stream) - 1) : i % sample_rate = 0}

\* The sampled positions whose frame the registered classifier flags.
FlaggedPositions(sample_rate) ==
    {i \in SampledPositions(sample_rate) :
        AboveHalf(FakeProbability("deepfake_classifier",
                      get_model(_models, "deepfake_classifier").weights,
                      media.stream[i + 1]))}

\* C12: for a video with N >= 1 sampled frames of which the deepfake
\* classifier flags K, the frame_analysis entry reports num_frames_analyzed =
\* N, num_fake_frames = K and fake_frame_ratio = K/N, and its verdict is true
\* if and only if 10*K > 3*N: exactly 30% of flagged frames gives false.
C12_FrameRatioVerdict ==
    (/\ mout.op = "VideoAnalyzer.analyze"
     /\ DictHas(_models, "deepfake_classifier")
     /\ SampledPositions(mout.arg) # {}) =>
        LET N == Cardinality(SampledPositions(mout.arg))
            K == Cardinality(FlaggedPositions(mout.arg))
            r == mout.out.value
        IN  /\ ~mout.out.raised
            /\ DictKeys(r.predictions) = <<"frame_analysis">>
            /\ DictHas(r.analysis_details, "frame_analysis")
            /\ LET details == DictGet(r.analysis_details, "frame_analysis")
               IN  /\ DictGet(details, "num_frames_analyzed") = N
                   /\ DictGet(details, "num_fake_frames") = K
                   /\ DictGet(details, "fake_frame_ratio") = Rat(K, N)
            /\ DictGet(r.predictions, "frame_analysis") <=> 10 * K > 3 * N

\* Every one of 10 frames was sampled, the classifier flagged exactly 3 of
\* them, and the verdict of the video is false.
C12_Witness ==
    /\ mout.op = "VideoAnalyzer.analyze"
    /\ mout.arg = 1
    /\ DictHas(_models, "deepfake_classifier")
    /\ Len(media.stream) = 10
    /\ Cardinality(FlaggedPositions(1)) = 3
    /\ ~mout.out.raised
    /\ DictHas(mout.out.value.predictions, "frame_analysis")
    /\ DictGet(mout.out.value.predictions, "frame_analysis") = FALSE

\* C14: extract_frames(path, N) with N >= 1 on a stream whose first F frames
\* are readable returns exactly the frames at positions 0, N, 2N, ... below
\* F, in stream order, ceil(F/N) frames in all: the frames collected before
\* the read that fails at position F are all returned.
C14_EveryNthFrame ==
    (mout.op = "extract_frames" /\ mout.arg >= 1) =>
        LET N == mout.arg
            F == Len(media.stream)
            count == (F + N - 1) \div N
        IN  /\ Len(mout.out) = count
            /\ \A k \in 1..count : mout.out[k] = media.stream[(k - 1) * N + 1]

\* Seven frames were readable and every third was asked for: the frames at
\* positions 0, 3 and 6 came back, in that order.
C14_Witness ==
    /\ mout.op = "extract_frames"
    /\ mout.arg = 3
    /\ media.stream = <<"swap", "face", "face", "face", "swap", "swap", "swap">>
    /\ mout.out = <<"swap", "face", "swap">>

\* C15: get_video_properties on a video whose capture reports a frame rate of
\* 0 (with or without frames) does not raise and reports no NaN: the duration
\* is reported as unknown, and width, height, fps and frame count are still
\* reported.
C15_ZeroFpsKeepsProperties ==
    (mout.op = "get_video_properties" /\ media.exists /\ media.fps = 0) =>
        /\ DictHas(mout.out, "width")
        /\ DictHas(mout.out, "height")
        /\ DictHas(mout.out, "fps")
        /\ DictHas(mout.out, "frame_count")
        /\ ~DictHas(mout.out, "duration")
              \/ DictGet(mout.out, "duration") \in {NoValue, "unknown"}

\* C16: every result AudioAnalyzer.analyze returns for a non-empty waveform
\* has exactly one prediction, named 'audio_analysis', with confidence
\* exactly 0.5 whatever the spectral entropy: its consensus confidence is 0.5
\* and its consensus verdict is the entropy flag (entropy < 5.0).
C16_AudioConfidenceFixed ==
    (/\ mout.op = "AudioAnalyzer.analyze"
     /\ ~mout.out.raised
     /\ media.exists
     /\ media.waveform) =>
        LET r == mout.out.value
            flag == ~IsNaN(media.entropy)
                        /\ media.entropy.num < 5 * media.entropy.den
        IN  /\ DictKeys(r.predictions) = <<"audio_analysis">>
            /\ DictKeys(r.confidence_scores) = <<"audio_analysis">>
            /\ r.confidence_scores[1][2] = [num |-> 1, den |-> 2]
            /\ get_consensus(r) = <<flag, [num |-> 1, den |-> 2]>>

\* A sound with spectral entropy 3 was analyzed: the single vote is "fake"
\* and the consensus is (true, 0.5).
C16_Witness ==
    /\ mout.op = "AudioAnalyzer.analyze"
    /\ ~mout.out.raised
    /\ media.waveform
    /\ media.entropy = Num(3)
    /\ mout.out.value.predictions = << <<"audio_analysis", TRUE>> >>
    /\ get_consensus(mout.out.value) = <<TRUE, Half>>

\* The media category of an extension, compared case-insensitively.
ByExtension(ext) ==
    CASE Lower(ext) \in {".jpg", ".jpeg", ".png", ".gif", ".bmp"} -> "image"
      [] Lower(ext) \in {".mp4", ".avi", ".mov", ".mkv"} -> "video"
      [] Lower(ext) \in {".wav", ".mp3", ".m4a"} -> "audio"
      [] OTHER -> "unknown"

C30_DeclaredDetectNeverRaises ==
    (mode = "single" /\ declared \in MediaTypes) => pc # "raised"

\* C27: every capture handle that get_video_properties or extract_frames
\* opens is released before the function returns, on every path, the ones
\* where the function catches an exception (a zero fps, a zero sample_rate)
\* included.
C27_CaptureReleased ==
    mout.op \in {"get_video_properties", "extract_frames"} => ~mout.handle

\* C29: in the upload handler, a request with a file of non-empty name,
\* allowed extension and non-empty body within the size limit passes
\* validation and reaches DetectionEngine.detect; validate_upload rejects a
\* file only when the name is empty, the extension is not allowed, the size
\* exceeds MAX_FILE_SIZE or the size is 0.
C29_ValidUploadReachesDetect ==
    /\ (/\ mout.op = "upload_file"
        /\ mout.arg.has_file
        /\ mout.arg.filename # Path("", "")
        /\ Lower(mout.arg.filename.ext) \in ALLOWED_EXTENSIONS
        /\ mout.arg.size > 0
        /\ mout.arg.size <= MAX_FILE_SIZE) =>
          mout.out.detect
    /\ mout.op = "validate_upload" =>
          (~mout.out[1] <=>
              \/ mout.arg.filename = Path("", "")
              \/ Lower(mout.arg.filename.ext) \notin ALLOWED_EXTENSIONS
              \/ mout.arg.size > MAX_FILE_SIZE
              \/ mout.arg.size = 0)

\* C22: the compression-artifact score is the number of flagged 8x8 blocks
\* divided by the number of 8x8 blocks of the luma image, both counted over
\* the same blocks: it lies in [0,1], is 0.0 with likely_compressed false
\* when no block is flagged, is 1.0 when every block is flagged, and
\* likely_compressed is true iff the score is above 0.3.
C22_ScoreIsFlaggedOverTotal ==
    (/\ mout.op = "detect_compression_artifacts"
     /\ FullBlocks(mout.arg.h, mout.arg.w) # {}) =>
        LET total == Cardinality(FullBlocks(mout.arg.h, mout.arg.w))
            flagged == Cardinality(mout.arg.edgy)
        IN  /\ ~mout.out.raised
            /\ DictGet(mout.out.value, "compression_artifact_score") =
                   Rat(flagged, total)
            /\ DictGet(mout.out.value, "likely_compressed") <=>
                   10 * flagged > 3 * total

\* C28: detect_compression_artifacts returns its metrics for every decoded
\* image of at least one pixel, the images with fewer than 8 rows or columns
\* included: it never fails with a division by zero, so analyze_image
\* completes for such images.
C28_SmallImagesAnalyzed ==
    mout.op \in {"detect_compression_artifacts", "analyze_image"} =>
        ~mout.out.raised

\* C21: the decision threshold is configurable at run time: once
\* config.CONFIDENCE_THRESHOLD has been reassigned to t on a constructed
\* engine, every per-model verdict of a later detect call is confidence > t,
\* and once the original value is restored later calls use 0.5 again.
C21_ThresholdFollowsConfig ==
    (/\ mode = "single"
     /\ pc = "returned"
     /\ outcome.value.media_type = "image") =>
        \A i \in 1..Len(outcome.value.predictions) :
            outcome.value.predictions[i][2] =
                RatGT(outcome.value.confidence_scores[i][2], config_threshold)

\* C23: the models an analysis in flight reads from the registry are not
\* replaced while it runs: constructing another DetectionEngine meanwhile
\* never changes which object the analysis obtains for a name, so all frames
\* of one video analysis are scored by the same model object.
C23_OneInstancePerAnalysis ==
    \A i, j \in 1..Len(reader.seen) : reader.seen[i].id = reader.seen[j].id

\* C24: set_device(d) is idempotent and total: with no registered model it
\* only changes the configured device; a second call with the same d changes
\* nothing; the registered names and the object bound to each are unchanged
\* and every registered model is on d.
C24_SetDeviceIdempotent ==
    [][\A d \in Devices :
          SetDevice(d) =>
              /\ _device' = d
              /\ DictKeys(_models') = DictKeys(_models)
              /\ ids' = ids
              /\ \A i \in 1..Len(_models) :
                    _models'[i][2] = [_models[i][2] EXCEPT !.device = d]
              /\ set_device(_models', d) = _models'
              /\ _models = <<>> => _models' = <<>>]_vars

\* set_device('cuda') has moved the four models of a constructed engine, all
\* still registered under their names.
C24_Witness ==
    /\ pc = "idle"
    /\ mout = [op |-> "set_device", arg |-> "cuda"]
    /\ _device = "cuda"
    /\ DictKeys(_models) = models_config
    /\ \A i \in 1..Len(_models) : _models[i][2].device = "cuda"

\* C25: after any sequence of engine constructions and set_device calls, the
\* device to which an analyzer moves its input tensor is the device the
\* registry's models are on: an analysis started after set_device(d) sends
\* its inputs to d.
C25_InputsFollowModels ==
    pc = "idle" =>
        /\ analyzer_device = _device
        /\ \A i \in 1..Len(_models) : _models[i][2].device = analyzer_device

\* C26: every model a reader obtains through get_model for a kind that
\* load_all_models loads is already in eval mode: no interleaving lets a
\* reader score with a model that is registered and not yet switched.
C26_VisibleModelsInEval ==
    \A i \in 1..Len(reader.seen) :
        reader.seen[i].id # 0 => ~reader.seen[i].training

=============================================================================
